---- MODULE Spec2Model ----
(***************************************************************************)
(* Deobfuscation Engine (DOE) peripheral of the Caliptra software emulator *)
(* (sw-emulator/lib/periph/src/doe.rs): the CONTROL register and IV buffer *)
(* behind the bus, the one-shot timer action that models the asynchronous  *)
(* flow, and the key vault / SoC secret store the engine acts on.          *)
(*                                                                         *)
(* Byte strings are kept at the granularity the engine handles them:       *)
(* a 16-byte cipher block is a tuple of four 32-bit words, the 32-byte     *)
(* deobfuscation key a tuple of eight.  AES-256 itself is a trusted        *)
(* primitive: the plaintext block D_key(ct) XOR chain is kept as the term  *)
(* [key, ct, chain], so that CBC chaining, the key, the IV and the         *)
(* ciphertext that went into a vault slot can all be read back from it.    *)
(***************************************************************************)
EXTENDS Integers, Sequences, FiniteSets, TLC

VARIABLES
    now,                 \* Clock: virtual time in ticks
    iv,                  \* Doe.iv: four 32-bit words (16 bytes)
    control,             \* Doe.control: raw 32-bit value
    op_complete_action,  \* Doe.op_complete_action: NoAction or [fire_at |-> tick]
    key_vault,           \* KeyVault: slot index -> 64 bytes (four plaintext blocks)
    soc_reg,             \* SocRegisters: [uds, doe_key, field_entropy]
    busResult,           \* outcome of the last CONTROL write: "None", "Ok" or a BusError
    lastWrite,           \* history: the last successful CONTROL write and the state it met
    fireLog              \* history: the operations performed by poll, in order

vars == <<now, iv, control, op_complete_action, key_vault, soc_reg,
          busResult, lastWrite, fireLog>>

(***************************************************************************)
(* Bounds of the exploration.                                              *)
(***************************************************************************)
\* The clock is advanced while it is below MaxTime.
MaxTime == 2000

\* Tick amounts handed to the clock: 499 + 499 stays short of the latency,
\* 499 + 501 and 1000 meet it exactly, 501 + 501 and 499 + 1000 overshoot it.
TickAmounts == {499, 501, 1000}

\* Words the driver writes into the IV buffer, and where.
IvWriteVals == {5}
IvWriteOffsets == {0, 12}

\* Values the driver writes to CONTROL:
\*   0x00 Idle              0x20 Idle with bit 5 set
\*   0x09 DeobfuscateUds, DEST=2
\*   0x6E DeobfuscateFe,  DEST=3, bits 5 and 6 set
\*   0x03 ClearSecrets,   DEST=0      0x1F ClearSecrets, DEST=7
ControlWriteVals == {0, 32, 9, 110, 3, 31}

\* Access sizes of the bus (RvSize).
RvSizes == {"Byte", "HalfWord", "Word"}

(***************************************************************************)
(* Program constants.                                                      *)
(***************************************************************************)
DOE_IV_SIZE == 16
DOE_OP_TICKS == 1000
OFFSET_IV == 0
OFFSET_CONTROL == 16

\* Control register fields: offset and width in bits.
CMD_OFFSET == 0
CMD_NUMBITS == 2
DEST_OFFSET == 2
DEST_NUMBITS == 3
FLOW_DONE_OFFSET == 5
FLOW_DONE_NUMBITS == 1

IDLE == 0
DEOBFUSCATE_UDS == 1
DEOBFUSCATE_FE == 2
CLEAR_SECRETS == 3

RECURSIVE Pow2(_)
Pow2(n) == IF n = 0 THEN 1 ELSE 2 * Pow2(n - 1)

\* reg.read(FIELD): the field's bits, shifted down.
ReadField(v, offset, numbits) == (v \div Pow2(offset)) % Pow2(numbits)

\* reg.modify(FIELD.val(x)): replaces the field's bits and keeps the others.
ModifyField(v, offset, numbits, x) ==
    v - ReadField(v, offset, numbits) * Pow2(offset) + (x % Pow2(numbits)) * Pow2(offset)

\* reg.write(FIELD.val(x)): the field's bits, every other bit zero.
WriteField(offset, numbits, x) == (x % Pow2(numbits)) * Pow2(offset)

CMD(v) == ReadField(v, CMD_OFFSET, CMD_NUMBITS)
DEST(v) == ReadField(v, DEST_OFFSET, DEST_NUMBITS)
FLOW_DONE(v) == ReadField(v, FLOW_DONE_OFFSET, FLOW_DONE_NUMBITS)

(***************************************************************************)
(* Byte strings.                                                           *)
(***************************************************************************)
ZeroBlock == <<0, 0, 0, 0>>                 \* 16 zero bytes
ZeroKey == <<0, 0, 0, 0, 0, 0, 0, 0>>       \* 32 zero bytes

\* A plaintext block is 16 raw bytes or the output of the block cipher.
RawBlock(b) == [kind |-> "raw", key |-> ZeroKey, ct |-> b, chain |-> ZeroBlock]
DecBlock(key, ct, chain) == [kind |-> "dec", key |-> key, ct |-> ct, chain |-> chain]

\* [0u8; 64]
ZeroSlot == [i \in 1..4 |-> RawBlock(ZeroBlock)]

\* Aes256Cbc::decrypt(key, iv, cipher, plain): block i of the plaintext is
\* D_key(cipher[i]) XOR cipher[i-1], the first block is chained to the IV.
Aes256CbcDecrypt(key, ivBlock, cipher) ==
    [i \in 1..Len(cipher) |->
        DecBlock(key, cipher[i], IF i = 1 THEN ivBlock ELSE cipher[i - 1])]

(***************************************************************************)
(* Collaborators: key vault and SoC registers.                             *)
(***************************************************************************)
KEY_COUNT == 8
KeyIds == 0..(KEY_COUNT - 1)

\* KeyVault::new(): every slot zero.
KeyVaultNew == [k \in KeyIds |-> ZeroSlot]

\* KeyVault::write_key(key_id, key): overwrites the slot.
WriteKey(kv, key_id, key) == [kv EXCEPT ![key_id] = key]

\* KeyVault::read_key(key_id)
ReadKey(kv, key_id) == kv[key_id]

\* SocRegisters::new(): the obfuscated UDS (48 bytes), the deobfuscation key
\* (32 bytes) and the obfuscated field entropy (128 bytes), none of them zero.
SocRegistersNew ==
    [uds |-> <<<<17, 18, 19, 20>>, <<21, 22, 23, 24>>, <<25, 26, 27, 28>>>>,
     doe_key |-> <<49, 50, 51, 52, 53, 54, 55, 56>>,
     field_entropy |-> <<<<33, 34, 35, 36>>, <<37, 38, 39, 40>>,
                         <<41, 42, 43, 44>>, <<45, 46, 47, 48>>,
                         <<65, 66, 67, 68>>, <<69, 70, 71, 72>>,
                         <<73, 74, 75, 76>>, <<77, 78, 79, 80>>>>]

\* SocRegisters::clear_secrets(): UDS, deobfuscation key and field entropy
\* become all-zero of their widths.
SocClearSecrets(soc) ==
    [uds |-> [i \in 1..Len(soc.uds) |-> ZeroBlock],
     doe_key |-> ZeroKey,
     field_entropy |-> [i \in 1..Len(soc.field_entropy) |-> ZeroBlock]]

(***************************************************************************)
(* Clock and timer.                                                        *)
(***************************************************************************)
NoAction == [pending |-> FALSE, fire_at |-> 0]

\* Timer::schedule_poll_in(ticks): an action that fires once the clock has
\* reached now + ticks.
SchedulePollIn(t, ticks) == [pending |-> TRUE, fire_at |-> t + ticks]

\* Timer::fired(&mut action): true when the action is there and due.
TimerFired(t, action) == action.pending /\ t >= action.fire_at

(***************************************************************************)
(* The deobfuscation engine.                                               *)
(***************************************************************************)
NoWrite(soc) ==
    [valid |-> FALSE, at |-> 0, val |-> 0, before |-> NoAction,
     iv |-> ZeroBlock, kv |-> KeyVaultNew, soc |-> soc, fires |-> 0]

\* Doe::new
Init ==
    /\ now = 0
    /\ iv = [i \in 1..(DOE_IV_SIZE \div 4) |-> 0]
    /\ control = 0
    /\ op_complete_action = NoAction
    /\ key_vault = KeyVaultNew
    /\ soc_reg = SocRegistersNew
    /\ busResult = "None"
    /\ lastWrite = NoWrite(soc_reg)
    /\ fireLog = <<>>

\* Bus read of CONTROL: the raw register value.
ReadControl == control

\* Bus write of a word into the IV buffer (ReadWriteMemory).
write_iv(offset, val) ==
    /\ iv' = [iv EXCEPT ![((offset - OFFSET_IV) \div 4) + 1] = val]
    /\ UNCHANGED <<now, control, op_complete_action, key_vault, soc_reg,
                   busResult, lastWrite, fireLog>>

\* Variant: FLOW_DONE is cleared by every write, Idle included.
ControlAfterWrite_ClearsAlways(val) ==
    ModifyField(val, FLOW_DONE_OFFSET, FLOW_DONE_NUMBITS, 0)

\* Variant: FLOW_DONE is not cleared when a command is accepted.
ControlAfterWrite_KeepsFlowDone(val) == val

\* on_write_control: the value left in the register by a word write.
ControlAfterWrite(val) ==
    IF CMD(val) # IDLE
    THEN ModifyField(val, FLOW_DONE_OFFSET, FLOW_DONE_NUMBITS, 0)
    ELSE val

\* Variant: a command accepted while an action is pending keeps that action
\* and its deadline.
ActionAfterWrite_KeepsPending(val, t, action) ==
    IF CMD(val) # IDLE /\ ~action.pending THEN SchedulePollIn(t, DOE_OP_TICKS) ELSE action

\* Variant: writing CMD = Idle cancels the pending action.
ActionAfterWrite_IdleCancels(val, t, action) ==
    IF CMD(val) # IDLE THEN SchedulePollIn(t, DOE_OP_TICKS) ELSE NoAction

\* Variant: the timer is scheduled whatever the command, Idle included.
ActionAfterWrite_AlwaysSchedules(val, t, action) == SchedulePollIn(t, DOE_OP_TICKS)

\* Variant: a command is accepted without the timer being scheduled.
ActionAfterWrite_NoSchedule(val, t, action) == action

\* on_write_control: the timer action left by a word write.
ActionAfterWrite(val, t, action) ==
    IF CMD(val) # IDLE THEN SchedulePollIn(t, DOE_OP_TICKS) ELSE action

\* Variant: accepting a CONTROL write also resets the IV buffer.
on_write_control_ResetsIv(size, val) ==
    IF size # "Word"
    THEN /\ busResult' = "StoreAccessFault"
         /\ UNCHANGED <<now, iv, control, op_complete_action, key_vault,
                        soc_reg, lastWrite, fireLog>>
    ELSE /\ control' = ControlAfterWrite(val)
         /\ op_complete_action' = ActionAfterWrite(val, now, op_complete_action)
         /\ busResult' = "Ok"
         /\ iv' = ZeroBlock
         /\ lastWrite' = [valid |-> TRUE, at |-> now, val |-> val,
                          before |-> op_complete_action,
                          iv |-> iv,
                          kv |-> key_vault, soc |-> soc_reg,
                          fires |-> Len(fireLog)]
         /\ UNCHANGED <<now, key_vault, soc_reg, fireLog>>

\* Variant: the register is set before the access size is checked.
on_write_control_SetBeforeCheck(size, val) ==
    /\ control' = ControlAfterWrite(val)
    /\ IF size # "Word"
       THEN /\ busResult' = "StoreAccessFault"
            /\ UNCHANGED <<now, iv, op_complete_action, key_vault,
                           soc_reg, lastWrite, fireLog>>
       ELSE /\ op_complete_action' = ActionAfterWrite(val, now, op_complete_action)
            /\ busResult' = "Ok"
            /\ lastWrite' = [valid |-> TRUE, at |-> now, val |-> val,
                             before |-> op_complete_action,
                             iv |-> iv,
                             kv |-> key_vault, soc |-> soc_reg,
                             fires |-> Len(fireLog)]
            /\ UNCHANGED <<now, iv, key_vault, soc_reg, fireLog>>

\* Doe::on_write_control, reached by a bus write at OFFSET_CONTROL.
on_write_control(size, val) ==
    IF size # "Word"
    THEN /\ busResult' = "StoreAccessFault"
         /\ UNCHANGED <<now, iv, control, op_complete_action, key_vault,
                        soc_reg, lastWrite, fireLog>>
    ELSE /\ control' = ControlAfterWrite(val)
         /\ op_complete_action' = ActionAfterWrite(val, now, op_complete_action)
         /\ busResult' = "Ok"
         /\ lastWrite' = [valid |-> TRUE, at |-> now, val |-> val,
                          before |-> op_complete_action,
                          iv |-> iv,
                          kv |-> key_vault, soc |-> soc_reg,
                          fires |-> Len(fireLog)]
         /\ UNCHANGED <<now, iv, key_vault, soc_reg, fireLog>>

\* Variant: the UDS is decrypted with an all-zero IV instead of the IV buffer.
unscramble_uds_IgnoresIv(kv, soc, ivBlock, key_id) ==
    LET cipher_uds == soc.uds
        dec == Aes256CbcDecrypt(soc.doe_key, ZeroBlock, cipher_uds)
        plain_uds == [i \in 1..4 |->
                         IF i <= Len(cipher_uds) THEN dec[i]
                                                 ELSE RawBlock(ZeroBlock)]
    IN  WriteKey(kv, key_id, plain_uds)

\* Doe::unscramble_uds: the key vault after the UDS has been stored.
unscramble_uds(kv, soc, ivBlock, key_id) ==
    LET cipher_uds == soc.uds
        dec == Aes256CbcDecrypt(soc.doe_key, ivBlock, cipher_uds)
        plain_uds == [i \in 1..4 |->
                         IF i <= Len(cipher_uds) THEN dec[i]
                                                 ELSE RawBlock(ZeroBlock)]
    IN  WriteKey(kv, key_id, plain_uds)

\* Variant: the field entropy is handled with the UDS's width, 48 bytes
\* decrypted and the rest of the slot left zero.
unscramble_fe_UdsWidth(kv, soc, ivBlock, key_id) ==
    LET cipher_fe == soc.field_entropy
        dec == Aes256CbcDecrypt(soc.doe_key, ivBlock, SubSeq(cipher_fe, 1, 3))
        plain_fe == [i \in 1..4 |-> IF i <= 3 THEN dec[i] ELSE RawBlock(ZeroBlock)]
    IN  WriteKey(kv, key_id, plain_fe)

\* Doe::unscramble_fe: the key vault after the field entropy has been stored.
unscramble_fe(kv, soc, ivBlock, key_id) ==
    LET cipher_fe == soc.field_entropy
        plain_fe == Aes256CbcDecrypt(soc.doe_key, ivBlock, SubSeq(cipher_fe, 1, 4))
    IN  WriteKey(kv, key_id, plain_fe)

\* Variant: the deobfuscation key survives the clear.
clear_secrets_KeepsKey(soc) == [SocClearSecrets(soc) EXCEPT !.doe_key = soc.doe_key]

\* Doe::clear_secrets
clear_secrets(soc) == SocClearSecrets(soc)

\* Variant: the deobfuscation uses the IV as it was when the command was
\* written, not the IV buffer at the fire.
KeyVaultAfterOp_IvAtIssue(ctrl, kv, soc, ivBlock) ==
    LET key_id == DEST(ctrl)
        cmd == CMD(ctrl)
    IN  CASE cmd = DEOBFUSCATE_UDS -> unscramble_uds(kv, soc, lastWrite.iv, key_id)
          [] cmd = DEOBFUSCATE_FE -> unscramble_fe(kv, soc, lastWrite.iv, key_id)
          [] OTHER -> kv

\* Doe::poll, the dispatch on CMD: the key vault after the operation.
KeyVaultAfterOp(ctrl, kv, soc, ivBlock) ==
    LET key_id == DEST(ctrl)
        cmd == CMD(ctrl)
    IN  CASE cmd = DEOBFUSCATE_UDS -> unscramble_uds(kv, soc, ivBlock, key_id)
          [] cmd = DEOBFUSCATE_FE -> unscramble_fe(kv, soc, ivBlock, key_id)
          [] OTHER -> kv

\* Variant: ClearSecrets is honoured for DEST = 0 only.
SocAfterOp_ClearOnlyDestZero(ctrl, soc) ==
    IF CMD(ctrl) = CLEAR_SECRETS /\ DEST(ctrl) = 0 THEN clear_secrets(soc) ELSE soc

\* Doe::poll, the dispatch on CMD: the SoC registers after the operation.
SocAfterOp(ctrl, soc) ==
    IF CMD(ctrl) = CLEAR_SECRETS THEN clear_secrets(soc) ELSE soc

\* Doe::poll, control.reg.write(FLOW_DONE::SET).
ControlAfterOp == WriteField(FLOW_DONE_OFFSET, FLOW_DONE_NUMBITS, 1)

\* Variant: the fired action is left in place.
ActionAfterFire_NotConsumed(action) == action

\* Doe::poll, timer.fired(&mut op_complete_action): the action is consumed.
ActionAfterFire(action) == NoAction

\* Variant: FLOW_DONE is set in the arms of the match only, not after the
\* no-op arm.
poll_DoneOnlyForCommands(t) ==
    IF TimerFired(t, op_complete_action)
    THEN /\ op_complete_action' = ActionAfterFire(op_complete_action)
         /\ key_vault' = KeyVaultAfterOp(control, key_vault, soc_reg, iv)
         /\ soc_reg' = SocAfterOp(control, soc_reg)
         /\ control' = IF CMD(control) = IDLE THEN control ELSE ControlAfterOp
         /\ fireLog' = Append(fireLog, [cmd |-> CMD(control), dest |-> DEST(control)])
    ELSE UNCHANGED <<control, op_complete_action, key_vault, soc_reg, fireLog>>

\* Variant: the fire sets the FLOW_DONE bit and keeps the other bits of
\* CONTROL.
poll_ModifiesFlowDone(t) ==
    IF TimerFired(t, op_complete_action)
    THEN /\ op_complete_action' = ActionAfterFire(op_complete_action)
         /\ key_vault' = KeyVaultAfterOp(control, key_vault, soc_reg, iv)
         /\ soc_reg' = SocAfterOp(control, soc_reg)
         /\ control' = ModifyField(control, FLOW_DONE_OFFSET, FLOW_DONE_NUMBITS, 1)
         /\ fireLog' = Append(fireLog, [cmd |-> CMD(control), dest |-> DEST(control)])
    ELSE UNCHANGED <<control, op_complete_action, key_vault, soc_reg, fireLog>>

\* Doe::poll at time t.
poll(t) ==
    IF TimerFired(t, op_complete_action)
    THEN /\ op_complete_action' = ActionAfterFire(op_complete_action)
         /\ key_vault' = KeyVaultAfterOp(control, key_vault, soc_reg, iv)
         /\ soc_reg' = SocAfterOp(control, soc_reg)
         /\ control' = ControlAfterOp
         /\ fireLog' = Append(fireLog, [cmd |-> CMD(control), dest |-> DEST(control)])
    ELSE UNCHANGED <<control, op_complete_action, key_vault, soc_reg, fireLog>>

\* The driver writes one word of the IV.
WriteIv ==
    \E offset \in IvWriteOffsets, val \in IvWriteVals : write_iv(offset, val)

\* The driver writes CONTROL, with any access size.  Commands are issued
\* while their deadline lies within the explored horizon.
WriteControl ==
    /\ now + DOE_OP_TICKS <= MaxTime
    /\ \E size \in RvSizes, val \in ControlWriteVals : on_write_control(size, val)

\* Clock::increment_and_poll: time moves, then the engine is polled once.
AdvanceClock ==
    /\ now < MaxTime
    /\ \E n \in TickAmounts :
          /\ now' = now + n
          /\ poll(now + n)
          /\ UNCHANGED <<iv, busResult, lastWrite>>

\* Bus::poll without the clock having moved.
PollOnly ==
    /\ poll(now)
    /\ UNCHANGED <<now, iv, busResult, lastWrite>>

Next == WriteIv \/ WriteControl \/ AdvanceClock \/ PollOnly

Spec == Init /\ [][Next]_vars

\* The driver keeps advancing the clock.
FairSpec == Spec /\ WF_vars(AdvanceClock)

(***************************************************************************)
(* Vocabulary of the properties.                                           *)
(***************************************************************************)
\* FLOW_DONE as the driver reads it from CONTROL.
FlowDoneRead == FLOW_DONE(ReadControl)

\* The last successful CONTROL write carried a non-idle command.
NonIdleAccepted == lastWrite.valid /\ CMD(lastWrite.val) # IDLE

\* The last successful CONTROL write carried CMD = Idle.
IdleAccepted == lastWrite.valid /\ CMD(lastWrite.val) = IDLE

\* Ticks advanced since the last successful CONTROL write.
TicksSinceWrite == now - lastWrite.at

\* Timer fires since the last successful CONTROL write.
FiresSinceWrite == Len(fireLog) - lastWrite.fires

\* This step is a poll in which the timer fired.
FireStep == Len(fireLog') = Len(fireLog) + 1

\* Device secret (48 bytes), deobfuscation key (32 bytes) and field entropy
\* (128 bytes) are all-zero.
AllZeroSecrets(soc) ==
    /\ soc.uds = <<ZeroBlock, ZeroBlock, ZeroBlock>>
    /\ soc.doe_key = ZeroKey
    /\ soc.field_entropy = <<ZeroBlock, ZeroBlock, ZeroBlock, ZeroBlock,
                             ZeroBlock, ZeroBlock, ZeroBlock, ZeroBlock>>

\* Some ClearSecrets command has completed.
ClearCompleted == \E i \in 1..Len(fireLog) : fireLog[i].cmd = CLEAR_SECRETS

\* The smallest tick amount, and the times the clock can stand at after at
\* most k advances.
MinTick == CHOOSE n \in TickAmounts : \A m \in TickAmounts : n <= m

RECURSIVE ClockTimesWithin(_)
ClockTimesWithin(k) ==
    IF k = 0 THEN {0}
    ELSE LET S == ClockTimesWithin(k - 1)
         IN  S \cup {s + n : s \in S, n \in TickAmounts}

\* The times at which a CONTROL write can be accepted.
AcceptTimes ==
    {t \in ClockTimesWithin((MaxTime \div MinTick) + 1) : t + DOE_OP_TICKS <= MaxTime}

(***************************************************************************)
(* C1.  A CONTROL write whose size is not Word fails with a store access   *)
(* fault and changes nothing: CONTROL, the pending timer action, the IV    *)
(* buffer, the key vault and the secret store are as before.               *)
(***************************************************************************)
C1_NonWordControlWriteFaults ==
    [][\A size \in RvSizes \ {"Word"}, val \in ControlWriteVals :
          on_write_control(size, val) =>
              /\ busResult' = "StoreAccessFault"
              /\ UNCHANGED <<control, op_complete_action, iv, key_vault, soc_reg>>]_vars

\* A faulted write met a register holding a command and a pending action.
C1_Witness ==
    /\ busResult = "StoreAccessFault"
    /\ op_complete_action.pending
    /\ CMD(control) # IDLE
    /\ iv # ZeroBlock

(***************************************************************************)
(* C2.  After a successful word write of a non-idle command to CONTROL at  *)
(* time t, with the clock being advanced (and the engine polled) again and *)
(* again, FLOW_DONE eventually reads 1, unless a CONTROL write after t     *)
(* intervenes.                                                             *)
(***************************************************************************)
C2_NonIdleEventuallyDone ==
    \A t \in AcceptTimes :
        (NonIdleAccepted /\ lastWrite.at = t)
            ~> (FlowDoneRead = 1 \/ lastWrite.at # t \/ ~NonIdleAccepted)

\* The command written last has completed and FLOW_DONE reads 1.
C2_Witness ==
    /\ NonIdleAccepted
    /\ FiresSinceWrite = 1
    /\ FlowDoneRead = 1
    /\ lastWrite.at > 0

(***************************************************************************)
(* C3.  While fewer than 1000 ticks have been advanced since a successful  *)
(* word write of a non-idle command (and no CONTROL write followed it),    *)
(* FLOW_DONE reads 0 and the key vault and the secret store are as they    *)
(* were at the write.                                                      *)
(***************************************************************************)
C3_NotDoneBefore1000Ticks ==
    (NonIdleAccepted /\ TicksSinceWrite < 1000) =>
        /\ FlowDoneRead = 0
        /\ key_vault = lastWrite.kv
        /\ soc_reg = lastWrite.soc

\* 998 ticks in two advances after a command whose value had bit 5 set.
C3_Witness ==
    /\ NonIdleAccepted
    /\ TicksSinceWrite = 998
    /\ FLOW_DONE(lastWrite.val) = 1

(***************************************************************************)
(* C4.  Once 1000 or more ticks have been advanced since a successful word *)
(* write of a non-idle command (and no CONTROL write followed it), that is *)
(* from the first advance call on that reaches the deadline, FLOW_DONE     *)
(* reads 1 and the timer has fired exactly once, for the command and DEST  *)
(* that were written, whichever they are.                                  *)
(***************************************************************************)
C4_DoneOnceAt1000Ticks ==
    (NonIdleAccepted /\ TicksSinceWrite >= 1000) =>
        /\ FlowDoneRead = 1
        /\ FiresSinceWrite = 1
        /\ fireLog[Len(fireLog)] =
               [cmd |-> CMD(lastWrite.val), dest |-> DEST(lastWrite.val)]

\* The deadline was met exactly, by two advances, and polls followed.
C4_Witness ==
    /\ NonIdleAccepted
    /\ TicksSinceWrite = 1000
    /\ lastWrite.at = 499
    /\ FiresSinceWrite = 1
    /\ CMD(lastWrite.val) = CLEAR_SECRETS

(***************************************************************************)
(* C5 as stated.  After a successful word write of CMD = Idle to CONTROL,  *)
(* with the clock being advanced, FLOW_DONE eventually reads 1 (unless     *)
(* another CONTROL write intervenes), and the key vault and the secret     *)
(* store stay as they were at the write.                                   *)
(***************************************************************************)
C5_IdleEventuallyDone ==
    /\ IdleAccepted ~> (FlowDoneRead = 1 \/ ~IdleAccepted)
    /\ [](IdleAccepted => (key_vault = lastWrite.kv /\ soc_reg = lastWrite.soc))

(***************************************************************************)
(* C5 amended.  A successful word write of CMD = Idle to CONTROL schedules *)
(* no timer action and leaves the key vault and the secret store as they   *)
(* were.  FLOW_DONE is set afterwards only by a timer action that was      *)
(* already pending at the write: it reads 1 once the clock has reached     *)
(* that action's deadline.  With no action pending at the write, no action *)
(* is pending after it and FLOW_DONE keeps bit 5 of the written value.     *)
(***************************************************************************)
C5_IdleDoneOnlyByPendingAction ==
    IdleAccepted =>
        /\ key_vault = lastWrite.kv
        /\ soc_reg = lastWrite.soc
        /\ FiresSinceWrite = 0 =>
              /\ op_complete_action = lastWrite.before
              /\ FlowDoneRead = FLOW_DONE(lastWrite.val)
        /\ (lastWrite.before.pending /\ now >= lastWrite.before.fire_at) =>
              /\ FiresSinceWrite = 1
              /\ FlowDoneRead = 1
        /\ ~lastWrite.before.pending =>
              /\ ~op_complete_action.pending
              /\ FiresSinceWrite = 0

\* An Idle write with bit 5 clear found no action pending, and the clock
\* has since been advanced past the latency: FLOW_DONE still reads 0.
C5_Witness ==
    /\ IdleAccepted
    /\ ~lastWrite.before.pending
    /\ FLOW_DONE(lastWrite.val) = 0
    /\ TicksSinceWrite >= 2 * 1000
    /\ FlowDoneRead = 0

(***************************************************************************)
(* C6.  When a DeobfuscateUds command with DEST = k completes, slot k of   *)
(* the key vault holds the AES-256-CBC decryption of the secret store's    *)
(* obfuscated UDS under the deobfuscation key and the IV buffer (48 bytes) *)
(* followed by 16 zero bytes; the other slots and the secret store are     *)
(* unchanged.                                                              *)
(***************************************************************************)
C6_UdsDeobfuscatedIntoDest ==
    [][(FireStep /\ NonIdleAccepted /\ CMD(lastWrite.val) = DEOBFUSCATE_UDS) =>
          LET k == DEST(lastWrite.val)
              key == soc_reg.doe_key
              uds == soc_reg.uds
          IN  /\ Len(uds) = 3
              /\ ReadKey(key_vault', k) =
                     <<DecBlock(key, uds[1], iv), DecBlock(key, uds[2], uds[1]),
                       DecBlock(key, uds[3], uds[2]), RawBlock(ZeroBlock)>>
              /\ \A j \in KeyIds \ {k} : ReadKey(key_vault', j) = ReadKey(key_vault, j)
              /\ soc_reg' = soc_reg]_vars

\* The UDS was deobfuscated into slot 2 under a written IV, beside a slot
\* that an earlier command had filled.
C6_Witness ==
    /\ NonIdleAccepted
    /\ CMD(lastWrite.val) = DEOBFUSCATE_UDS
    /\ FiresSinceWrite = 1
    /\ key_vault[2][1].chain # ZeroBlock
    /\ key_vault[3] # ZeroSlot

(***************************************************************************)
(* C7.  When a DeobfuscateFe command with DEST = k completes, slot k of    *)
(* the key vault holds the AES-256-CBC decryption of the first 64 bytes of *)
(* the obfuscated field entropy under the deobfuscation key and the IV     *)
(* buffer, all 64 bytes of the slot and no padding; the other slots and    *)
(* the secret store are unchanged.                                         *)
(***************************************************************************)
C7_FeDeobfuscatedIntoDest ==
    [][(FireStep /\ NonIdleAccepted /\ CMD(lastWrite.val) = DEOBFUSCATE_FE) =>
          LET k == DEST(lastWrite.val)
              key == soc_reg.doe_key
              fe == soc_reg.field_entropy
          IN  /\ ReadKey(key_vault', k) =
                     <<DecBlock(key, fe[1], iv), DecBlock(key, fe[2], fe[1]),
                       DecBlock(key, fe[3], fe[2]), DecBlock(key, fe[4], fe[3])>>
              /\ \A j \in KeyIds \ {k} : ReadKey(key_vault', j) = ReadKey(key_vault, j)
              /\ soc_reg' = soc_reg]_vars

\* The field entropy was deobfuscated into slot 3 under a written IV,
\* beside a slot that an earlier command had filled.
C7_Witness ==
    /\ NonIdleAccepted
    /\ CMD(lastWrite.val) = DEOBFUSCATE_FE
    /\ FiresSinceWrite = 1
    /\ key_vault[3][4].kind = "dec"
    /\ key_vault[3][1].chain # ZeroBlock
    /\ key_vault[2] # ZeroSlot

(***************************************************************************)
(* C8.  When a ClearSecrets command completes, whatever its DEST and       *)
(* whatever the secret store held (a second ClearSecrets included), the    *)
(* device secret, the deobfuscation key and the field entropy are all-zero *)
(* and the key vault is not written.                                       *)
(***************************************************************************)
C8_ClearSecretsZeroes ==
    [][(FireStep /\ NonIdleAccepted /\ CMD(lastWrite.val) = CLEAR_SECRETS) =>
          /\ AllZeroSecrets(soc_reg')
          /\ key_vault' = key_vault]_vars

\* ClearSecrets ran to completion twice, with different DEST.
C8_Witness ==
    /\ Len(fireLog) = 2
    /\ fireLog[1].cmd = CLEAR_SECRETS
    /\ fireLog[2].cmd = CLEAR_SECRETS
    /\ fireLog[1].dest # fireLog[2].dest
    /\ AllZeroSecrets(soc_reg)

(***************************************************************************)
(* C9.  Once a ClearSecrets command has completed, the device secret, the  *)
(* deobfuscation key and the field entropy are all-zero in every later     *)
(* state, whatever is written to IV or CONTROL and however the clock is    *)
(* advanced.                                                               *)
(***************************************************************************)
C9_ClearIsIrreversible == ClearCompleted => AllZeroSecrets(soc_reg)

\* After the clear, the IV was written and a deobfuscation ran to completion.
C9_Witness ==
    /\ Len(fireLog) = 2
    /\ fireLog[1].cmd = CLEAR_SECRETS
    /\ fireLog[2].cmd = DEOBFUSCATE_FE
    /\ iv # ZeroBlock
    /\ key_vault[3] # ZeroSlot
    /\ AllZeroSecrets(soc_reg)

(***************************************************************************)
(* C10.  FLOW_DONE turns from 0 to 1 only in a step in which the timer of  *)
(* an accepted command fires: no bus write and no clock advance short of a *)
(* fire makes it read 1.                                                   *)
(***************************************************************************)
C10_FlowDoneOnlyByTimerFire ==
    [][(FlowDoneRead = 0 /\ FlowDoneRead' = 1) => FireStep]_vars

(***************************************************************************)
(* C11.  A non-idle command accepted while a timer action is pending takes *)
(* that action's place.  Until 1000 ticks have passed since the second     *)
(* write nothing completes: no fire, FLOW_DONE reads 0, key vault and      *)
(* secret store as at the second write, and the one pending action is due  *)
(* 1000 ticks after the second write.  From then on there has been exactly *)
(* one fire, FLOW_DONE reads 1, and the side effect is that of the second  *)
(* command at its DEST and nothing else.                                   *)
(***************************************************************************)
C11_SecondCommandOverwrites ==
    (NonIdleAccepted /\ lastWrite.before.pending) =>
        LET cmd == CMD(lastWrite.val)
            k == DEST(lastWrite.val)
        IN  /\ TicksSinceWrite < 1000 =>
                  /\ FiresSinceWrite = 0
                  /\ FlowDoneRead = 0
                  /\ op_complete_action = [pending |-> TRUE, fire_at |-> lastWrite.at + 1000]
                  /\ key_vault = lastWrite.kv
                  /\ soc_reg = lastWrite.soc
            /\ TicksSinceWrite >= 1000 =>
                  /\ FiresSinceWrite = 1
                  /\ FlowDoneRead = 1
                  /\ ~op_complete_action.pending
                  /\ fireLog[Len(fireLog)] = [cmd |-> cmd, dest |-> k]
                  /\ cmd = CLEAR_SECRETS =>
                        /\ key_vault = lastWrite.kv
                        /\ AllZeroSecrets(soc_reg)
                  /\ cmd # CLEAR_SECRETS =>
                        /\ soc_reg = lastWrite.soc
                        /\ \A j \in KeyIds \ {k} : key_vault[j] = lastWrite.kv[j]
                        /\ key_vault[k][1].kind = "dec"
                        /\ key_vault[k][1].ct =
                               IF cmd = DEOBFUSCATE_UDS THEN lastWrite.soc.uds[1]
                                                        ELSE lastWrite.soc.field_entropy[1]

\* DeobfuscateUds was written 499 ticks after another command, before that
\* command's deadline, and completed 1000 ticks later with the secret store
\* intact and slot 2 alone filled.
C11_Witness ==
    /\ NonIdleAccepted
    /\ lastWrite.before.pending
    /\ lastWrite.before.fire_at = 1000
    /\ lastWrite.at = 499
    /\ CMD(lastWrite.val) = DEOBFUSCATE_UDS
    /\ now = 1499
    /\ FiresSinceWrite = 1
    /\ Len(fireLog) = 1
    /\ ~AllZeroSecrets(soc_reg)
    /\ key_vault[3] = ZeroSlot

(***************************************************************************)
(* C12 as stated.  Whenever the timer fires, either no CONTROL write has   *)
(* followed the accepted command, or the CONTROL write that followed has   *)
(* rescheduled completion: in both cases the deadline that fires lies 1000 *)
(* ticks after the last successful CONTROL write, and with a non-idle last *)
(* write it is that command which is performed.                            *)
(***************************************************************************)
C12_PerformedOrRescheduled ==
    [][FireStep =>
          /\ op_complete_action.fire_at = lastWrite.at + 1000
          /\ NonIdleAccepted =>
                fireLog'[Len(fireLog')] =
                    [cmd |-> CMD(lastWrite.val), dest |-> DEST(lastWrite.val)]]_vars

(***************************************************************************)
(* C12 amended.  A pending action cannot be cancelled: it goes away only   *)
(* by firing, which it does at the first advance that reaches its          *)
(* deadline, and its deadline changes only by a non-idle CONTROL write,    *)
(* which sets it to 1000 ticks after that write.  At the fire the command  *)
(* written last is performed if that write was non-idle; if the last write *)
(* was CMD = Idle the deadline is still the one it met and the fire        *)
(* changes neither key vault nor secret store and sets FLOW_DONE.          *)
(***************************************************************************)
C12_NoAbortButOverwrite ==
    [][/\ (op_complete_action.pending /\ ~op_complete_action'.pending) =>
              (FireStep /\ now' >= op_complete_action.fire_at)
       /\ op_complete_action'.pending => now' < op_complete_action'.fire_at
       /\ (op_complete_action.pending /\ op_complete_action'.pending
              /\ op_complete_action' # op_complete_action) =>
              /\ lastWrite' # lastWrite
              /\ CMD(lastWrite'.val) # IDLE
              /\ op_complete_action'.fire_at = lastWrite'.at + 1000
       /\ (FireStep /\ NonIdleAccepted) =>
              /\ op_complete_action.fire_at = lastWrite.at + 1000
              /\ fireLog'[Len(fireLog')] =
                     [cmd |-> CMD(lastWrite.val), dest |-> DEST(lastWrite.val)]
       /\ (FireStep /\ IdleAccepted) =>
              /\ op_complete_action = lastWrite.before
              /\ fireLog'[Len(fireLog')].cmd = IDLE
              /\ key_vault' = key_vault
              /\ soc_reg' = soc_reg
              /\ FlowDoneRead' = 1]_vars

\* CMD = Idle was written 998 ticks after a command; the fire came at 1497,
\* not 1000 ticks after the Idle write, and performed nothing.
C12_Witness ==
    /\ IdleAccepted
    /\ lastWrite.before = [pending |-> TRUE, fire_at |-> 1000]
    /\ lastWrite.at = 998
    /\ now = 1497
    /\ FiresSinceWrite = 1
    /\ key_vault = KeyVaultNew
    /\ soc_reg = SocRegistersNew

(***************************************************************************)
(* C13.  The IV of a deobfuscation is the content of the IV buffer when    *)
(* the timer fires: the first plaintext block stored in the vault by       *)
(* DeobfuscateUds / DeobfuscateFe is chained to the IV buffer of the fire  *)
(* step, whatever the buffer held when the command was written.            *)
(***************************************************************************)
C13_IvReadAtFire ==
    [][(FireStep /\ NonIdleAccepted
              /\ CMD(lastWrite.val) \in {DEOBFUSCATE_UDS, DEOBFUSCATE_FE}) =>
          LET first == ReadKey(key_vault', DEST(lastWrite.val))[1]
              cipher == IF CMD(lastWrite.val) = DEOBFUSCATE_UDS
                            THEN soc_reg.uds ELSE soc_reg.field_entropy
          IN  first = DecBlock(soc_reg.doe_key, cipher[1], iv)]_vars

\* The IV was written between the accept and the fire: the stored block is
\* chained to the later IV, which differs from the IV met by the command.
C13_Witness ==
    /\ NonIdleAccepted
    /\ CMD(lastWrite.val) = DEOBFUSCATE_UDS
    /\ FiresSinceWrite = 1
    /\ lastWrite.iv = ZeroBlock
    /\ key_vault[DEST(lastWrite.val)][1].chain = <<5, 0, 0, 5>>

(***************************************************************************)
(* C14.  A poll or clock advance that finds no pending action, or finds    *)
(* one whose deadline the clock has not reached, changes nothing.  The     *)
(* timer fires only for a pending action that is due, and the fire         *)
(* consumes it.  After the last accepted CONTROL write has seen its fire,  *)
(* no further step without a CONTROL write fires again or changes CONTROL, *)
(* the pending action, the key vault or the secret store: there is at most *)
(* one fire per accepted write.                                            *)
(***************************************************************************)
C14_PollIdempotent ==
    [][/\ (lastWrite' = lastWrite /\ busResult' = busResult /\ iv' = iv
              /\ ~(op_complete_action.pending /\ now' >= op_complete_action.fire_at)) =>
              UNCHANGED <<control, op_complete_action, key_vault, soc_reg, fireLog>>
       /\ FireStep =>
              /\ op_complete_action.pending
              /\ now' >= op_complete_action.fire_at
              /\ ~op_complete_action'.pending
       /\ (lastWrite.valid /\ FiresSinceWrite >= 1 /\ lastWrite' = lastWrite) =>
              /\ ~FireStep
              /\ UNCHANGED <<control, op_complete_action, key_vault, soc_reg>>
       /\ lastWrite'.valid => Len(fireLog') - lastWrite'.fires <= 1]_vars

\* Two full latencies after the write: the command completed once, and the
\* advances and polls that followed left CONTROL at its completion value.
C14_Witness ==
    /\ NonIdleAccepted
    /\ FiresSinceWrite = 1
    /\ TicksSinceWrite >= 2 * 1000
    /\ ~op_complete_action.pending
    /\ control = 32

(***************************************************************************)
(* C15.  A successful bus write changes its target only.  A word write     *)
(* into the IV region sets the addressed word and leaves the other IV      *)
(* words, CONTROL, the pending action, the key vault and the secret store  *)
(* as they were; a successful word write to CONTROL leaves the IV buffer,  *)
(* the key vault and the secret store as they were.                        *)
(***************************************************************************)
C15_WriteChangesOnlyItsTarget ==
    [][/\ \A offset \in IvWriteOffsets, val \in IvWriteVals :
              write_iv(offset, val) =>
                  /\ iv'[(offset \div 4) + 1] = val
                  /\ \A i \in (1..4) \ {(offset \div 4) + 1} : iv'[i] = iv[i]
                  /\ UNCHANGED <<control, op_complete_action, key_vault, soc_reg>>
       /\ \A val \in ControlWriteVals :
              on_write_control("Word", val) =>
                  UNCHANGED <<iv, key_vault, soc_reg>>]_vars

\* The last IV word was written after a command had been accepted over a
\* written IV and a filled vault; the command is still pending.
C15_Witness ==
    /\ NonIdleAccepted
    /\ FiresSinceWrite = 0
    /\ op_complete_action.pending
    /\ lastWrite.iv = <<5, 0, 0, 0>>
    /\ iv = <<5, 0, 0, 5>>
    /\ lastWrite.kv # KeyVaultNew
    /\ key_vault = lastWrite.kv

(***************************************************************************)
(* C16.  Every timer fire leaves FLOW_DONE reading 1, also when the CMD    *)
(* held in CONTROL at the fire is Idle; in that case the fire changes      *)
(* neither the key vault nor the secret store.                             *)
(***************************************************************************)
C16_FireAlwaysSetsFlowDone ==
    [][FireStep =>
          /\ FlowDoneRead' = 1
          /\ CMD(control) = IDLE => (key_vault' = key_vault /\ soc_reg' = soc_reg)]_vars

\* After a completed DeobfuscateFe, a second fire met CMD = Idle with bit 5
\* clear in CONTROL and set FLOW_DONE.
C16_Witness ==
    /\ Len(fireLog) = 2
    /\ fireLog[1].cmd = DEOBFUSCATE_FE
    /\ fireLog[2].cmd = IDLE
    /\ lastWrite.val = 0
    /\ FlowDoneRead = 1
    /\ key_vault[3] # ZeroSlot

(***************************************************************************)
(* C17.  After a successful word write of v to CONTROL, a read of CONTROL  *)
(* returns v with bit 5 cleared and a timer action is scheduled 1000 ticks *)
(* ahead if the two low bits of v are not zero; if they are zero (Idle),   *)
(* the read returns v as written and the timer action is as it was.        *)
(***************************************************************************)
C17_WriteClearsAndSchedulesIffNonIdle ==
    [][\A v \in ControlWriteVals :
          on_write_control("Word", v) =>
              IF v % 4 # 0
              THEN /\ ReadControl' = v - 32 * ((v \div 32) % 2)
                   /\ op_complete_action' = [pending |-> TRUE, fire_at |-> now + 1000]
              ELSE /\ ReadControl' = v
                   /\ op_complete_action' = op_complete_action]_vars

\* 0x6E, bit 5 set, was written at tick 499: CONTROL reads 0x4E and the
\* action is due at 1499.
C17_Witness ==
    /\ lastWrite.valid
    /\ lastWrite.val = 110
    /\ lastWrite.at = 499
    /\ FiresSinceWrite = 0
    /\ ReadControl = 78
    /\ op_complete_action = [pending |-> TRUE, fire_at |-> 1499]

(***************************************************************************)
(* C18.  Whenever the CMD field of CONTROL is not Idle, a timer action is  *)
(* pending and FLOW_DONE is 0: CONTROL never reads FLOW_DONE = 1 together  *)
(* with a non-idle CMD.                                                    *)
(***************************************************************************)
C18_NonIdleCmdMeansPending ==
    CMD(ReadControl) # IDLE =>
        /\ op_complete_action.pending
        /\ FlowDoneRead = 0

\* After one completion had left FLOW_DONE set, a command written with
\* bit 5 set is in flight, 499 ticks on.
C18_Witness ==
    /\ CMD(ReadControl) # IDLE
    /\ Len(fireLog) = 1
    /\ FLOW_DONE(lastWrite.val) = 1
    /\ TicksSinceWrite = 499
    /\ op_complete_action.pending

(***************************************************************************)
(* C19.  A timer fire overwrites the whole of CONTROL: right after every   *)
(* completion its raw value is 0x20, FLOW_DONE = 1 with CMD = Idle,        *)
(* DEST = 0 and bits 6-31 zero, whatever command, DEST and upper bits it   *)
(* held.                                                                   *)
(***************************************************************************)
C19_FireLeavesControl0x20 ==
    [][FireStep =>
          /\ ReadControl' = 32
          /\ CMD(ReadControl') = IDLE
          /\ DEST(ReadControl') = 0
          /\ FlowDoneRead' = 1
          /\ ReadControl' \div 64 = 0]_vars

\* 0x6E (DeobfuscateFe, DEST = 3, bit 6 set) completed: slot 3 is filled
\* and CONTROL reads 0x20.
C19_Witness ==
    /\ lastWrite.valid
    /\ lastWrite.val = 110
    /\ FiresSinceWrite = 1
    /\ key_vault[3][1].kind = "dec"
    /\ ReadControl = 32

(***************************************************************************)
(* C20.  What a fire performs is decided by CONTROL at the fire, not by    *)
(* the write that scheduled it.  Every deadline is set by a non-idle       *)
(* CONTROL write, 1000 ticks after it, and a word write with CMD = Idle    *)
(* leaves the pending action as it is.  After such a write, with no later  *)
(* CONTROL write: before the deadline the action is still the one the      *)
(* write met and nothing has fired; from the deadline on there has been    *)
(* one fire, for CMD = Idle, and FLOW_DONE reads 1; throughout, the key    *)
(* vault and the secret store are as they were at the Idle write.          *)
(***************************************************************************)
C20_IdleWriteKeepsDeadlineDropsCommand ==
    /\ [](IdleAccepted /\ lastWrite.before.pending =>
              /\ key_vault = lastWrite.kv
              /\ soc_reg = lastWrite.soc
              /\ now < lastWrite.before.fire_at =>
                    /\ op_complete_action = lastWrite.before
                    /\ FiresSinceWrite = 0
                    /\ FlowDoneRead = FLOW_DONE(lastWrite.val)
              /\ now >= lastWrite.before.fire_at =>
                    /\ ~op_complete_action.pending
                    /\ FiresSinceWrite = 1
                    /\ fireLog[Len(fireLog)] =
                           [cmd |-> IDLE, dest |-> DEST(lastWrite.val)]
                    /\ FlowDoneRead = 1)
    /\ [][/\ \A v \in ControlWriteVals :
                 (on_write_control("Word", v) /\ v % 4 = 0) =>
                     op_complete_action' = op_complete_action
          /\ (op_complete_action'.pending
                 /\ op_complete_action' # op_complete_action) =>
                 /\ lastWrite'.at = now
                 /\ lastWrite'.val % 4 # 0
                 /\ op_complete_action'.fire_at = now + 1000]_vars

\* A command was written at tick 501 and CMD = Idle at tick 1000: the fire
\* came at 1501, nothing was deobfuscated or cleared, FLOW_DONE reads 1.
C20_Witness ==
    /\ IdleAccepted
    /\ lastWrite.before = [pending |-> TRUE, fire_at |-> 1501]
    /\ lastWrite.at = 1000
    /\ now = 1501
    /\ FiresSinceWrite = 1
    /\ FlowDoneRead = 1
    /\ key_vault = KeyVaultNew
    /\ soc_reg = SocRegistersNew

====
